---- MODULE Spec2Model ----
(***************************************************************************)
(* A model of pediatricIQphantoms/make_phantoms.py: the CTobj parameter    *)
(* set (constructor, run, write_to_dicom), the mirt_sim wrapper, the       *)
(* metadata extractor dicom_meta_to_dataframe and the batch orchestrator   *)
(* run_batch_sim.                                                          *)
(*                                                                         *)
(* Python strings are sequences of one-character strings, so that f-string *)
(* formatting, str.split, str.replace, int() and float() are modelled by   *)
(* what they do.  Lengths in mm that the code multiplies by 1.1 are kept   *)
(* in tenths of a mm; dose levels are multiples of 1/DoseDen.              *)
(***************************************************************************)
EXTENDS Integers, Sequences, FiniteSets, TLC

VARIABLES
    args,       \* the arguments of the call being modelled
    pc,         \* where the call is
    idx,        \* run_batch_sim: the positions of the three loops
    ct,         \* the current CTobj
    simcalls,   \* every call made to the external simulator, in order
    writes,     \* every pydicom.write_file call that succeeded, in order
    fnames,     \* run_batch_sim: the list fnames
    metadata,   \* run_batch_sim: <<table>> once returned, <<>> before
    csv,        \* metadata.csv: <<table>> once written, <<>> before
    err         \* the exception that reached the caller, or NoError

vars == <<args, pc, idx, ct, simcalls, writes, fnames, metadata, csv, err>>

(***************************************************************************)
(* Bounds of the model.                                                    *)
(***************************************************************************)
MaxLen == 3
MaxNsims == 2
MaxId == 1
MaxLesionLen == 5

(***************************************************************************)
(* Python string primitives.                                               *)
(***************************************************************************)
Digits == <<"0", "1", "2", "3", "4", "5", "6", "7", "8", "9">>

DigitChar(d) == Digits[d + 1]

IsDigit(c) == \E d \in 0..9 : Digits[d + 1] = c

DigitVal(c) == CHOOSE d \in 0..9 : Digits[d + 1] = c

RECURSIVE Str(_)
Str(n) == IF n < 10 THEN <<DigitChar(n)>> ELSE Str(n \div 10) \o <<DigitChar(n % 10)>>

RECURSIVE Zeros(_)
Zeros(k) == IF k <= 0 THEN <<>> ELSE <<"0">> \o Zeros(k - 1)

\* f'{n:03d}'
Pad3(n) == Zeros(3 - Len(Str(n))) \o Str(n)

\* f'{d/10}' for an integer d: the shortest repr of the float d/10
FloatStr10(d) == Str(d \div 10) \o <<".">> \o Str(d % 10)

RECURSIVE Join(_, _)
Join(parts, sep) ==
    IF Len(parts) = 0 THEN <<>>
    ELSE IF Len(parts) = 1 THEN parts[1]
    ELSE parts[1] \o sep \o Join(Tail(parts), sep)

\* s[j .. j+len(sub)-1] == sub
MatchAt(s, sub, j) ==
    /\ j + Len(sub) - 1 <= Len(s)
    /\ \A k \in 1..Len(sub) : s[j + k - 1] = sub[k]

\* str.find from position j: the first index of sub in s, 0 when absent
RECURSIVE FindFrom(_, _, _)
FindFrom(s, sub, j) ==
    IF j + Len(sub) - 1 > Len(s) THEN 0
    ELSE IF MatchAt(s, sub, j) THEN j
    ELSE FindFrom(s, sub, j + 1)

Find(s, sub) == FindFrom(s, sub, 1)

\* str.rfind: the last index of sub in s, 0 when absent
RECURSIVE RFindFrom(_, _, _)
RFindFrom(s, sub, j) ==
    IF j < 1 THEN 0
    ELSE IF MatchAt(s, sub, j) THEN j
    ELSE RFindFrom(s, sub, j - 1)

RFind(s, sub) == RFindFrom(s, sub, Len(s) - Len(sub) + 1)

\* str.split(sep)
RECURSIVE Split(_, _)
Split(s, sep) ==
    LET j == Find(s, sep)
    IN  IF j = 0 THEN <<s>>
        ELSE <<SubSeq(s, 1, j - 1)>> \o Split(SubSeq(s, j + Len(sep), Len(s)), sep)

\* str.replace(old, new): every occurrence, left to right
Replace(s, old, new) == Join(Split(s, old), new)

EndsWith(s, suf) ==
    /\ Len(suf) <= Len(s)
    /\ SubSeq(s, Len(s) - Len(suf) + 1, Len(s)) = suf

RECURSIVE LStrip(_)
LStrip(s) == IF Len(s) > 0 /\ s[1] = " " THEN LStrip(Tail(s)) ELSE s

RECURSIVE RStrip(_)
RStrip(s) == IF Len(s) > 0 /\ s[Len(s)] = " " THEN RStrip(SubSeq(s, 1, Len(s) - 1)) ELSE s

\* str.strip()
Strip(s) == RStrip(LStrip(s))

UpperChar(c) ==
    CASE c = "c" -> "C"
      [] c = "t" -> "T"
      [] c = "p" -> "P"
      [] c = "u" -> "U"
      [] c = "n" -> "N"
      [] c = "i" -> "I"
      [] c = "f" -> "F"
      [] c = "o" -> "O"
      [] c = "r" -> "R"
      [] c = "m" -> "M"
      [] OTHER -> c

\* str.upper()
Upper(s) == [i \in 1..Len(s) |-> UpperChar(s[i])] \o <<>>

ParseError == -1

RECURSIVE DigitsVal(_)
DigitsVal(s) == IF Len(s) = 0 THEN 0 ELSE 10 * DigitsVal(SubSeq(s, 1, Len(s) - 1)) + DigitVal(s[Len(s)])

AllDigits(s) == Len(s) > 0 /\ \A i \in 1..Len(s) : IsDigit(s[i])

\* int(s): surrounding blanks are ignored, anything but digits raises ValueError
ParseInt(s) == IF AllDigits(Strip(s)) THEN DigitsVal(Strip(s)) ELSE ParseError

\* float(s) of a decimal with one fractional digit, as a number of tenths
ParseFloat10(s) ==
    LET t == Strip(s)
        p == Split(t, <<".">>)
    IN  IF Len(p) = 2 /\ AllDigits(p[1]) /\ AllDigits(p[2]) /\ Len(p[2]) = 1
        THEN 10 * DigitsVal(p[1]) + DigitsVal(p[2])
        ELSE ParseError

(***************************************************************************)
(* pathlib.Path: a path is the sequence of its components, the first one   *)
(* the absolute directory it starts from.                                  *)
(***************************************************************************)
\* str(path)
PathStr(p) == Join(p, <<"/">>)

\* path / name
PathDiv(p, name) == Append(p, name)

PathName(p) == p[Len(p)]

PathParent(p) == SubSeq(p, 1, Len(p) - 1)

PathSuffix(p) ==
    LET n == PathName(p)
        j == RFind(n, <<".">>)
    IN  IF j <= 1 THEN <<>> ELSE SubSeq(n, j, Len(n))

PathStem(p) ==
    LET n == PathName(p)
        j == RFind(n, <<".">>)
    IN  IF j <= 1 THEN n ELSE SubSeq(n, 1, j - 1)

(***************************************************************************)
(* String constants of the program.                                        *)
(***************************************************************************)
S_CCT189 == <<"C", "C", "T", "1", "8", "9">>
S_cct189 == <<"c", "c", "t", "1", "8", "9">>
S_CTP404 == <<"C", "T", "P", "4", "0", "4">>
S_ctp404 == <<"c", "t", "p", "4", "0", "4">>
S_UNIFORM == <<"U", "N", "I", "F", "O", "R", "M">>
S_MITA_LCD == <<"M", "I", "T", "A", "-", "L", "C", "D">>
S_MITA == <<"M", "I", "T", "A">>
S_MITALCD == <<"M", "I", "T", "A", "L", "C", "D">>
S_LCD == <<"L", "C", "D">>
S_FOO == <<"F", "O", "O">>
S_cm == <<"c", "m">>
S_sp_cm_sp == <<" ", "c", "m", " ">>
S_dose_ == <<"d", "o", "s", "e", "_">>
S_diameter == <<"d", "i", "a", "m", "e", "t", "e", "r">>
S_mm == <<"m", "m">>
S_fbp == <<"f", "b", "p">>
S_dcm == <<".", "d", "c", "m">>
S_noisefree == <<"n", "o", "i", "s", "e", "f", "r", "e", "e">>
S_groundtruth == <<"g", "r", "o", "u", "n", "d", "t", "r", "u", "t", "h">>
S_pct_dose == <<"%", " ", "d", "o", "s", "e">>
S_I0 == <<" ", "I", "0", ":", " ">>
S_comment == <<"e", "f", "f", "c", "t", "i", "v", "e", " ", "d", "i", "a", "m", "e", "t", "e", "r", " ",
               "[", "c", "m", "]", ":", " ">>
S_out == <<"/", "o", "u", "t">>
S_dose_7 == <<"/", "d", "o", "s", "e", "_", "7">>

\* The UIDs of pydicom's CT_small.dcm, the template write_to_dicom reads.  A UID is
\* kept as the sequence of its dot-separated segments.
T_SOPInstanceUID ==
    <<<<"1">>, <<"3">>, <<"6">>, <<"1">>, <<"4">>, <<"1">>,
      <<"5", "9", "6", "2">>, <<"1">>, <<"1">>, <<"1">>, <<"1">>, <<"1">>,
      <<"2", "0", "0", "4", "0", "1", "1", "9", "0", "7", "2", "7", "3", "0">>, <<"1", "2", "3", "2", "2">>>>
T_MediaStorageSOPInstanceUID ==
    <<<<"1">>, <<"3">>, <<"6">>, <<"1">>, <<"4">>, <<"1">>,
      <<"5", "9", "6", "2">>, <<"1">>, <<"1">>, <<"1">>, <<"1">>, <<"1">>,
      <<"2", "0", "0", "4", "0", "1", "1", "9", "0", "7", "2", "7", "3", "0">>, <<"1", "2", "3", "2", "2">>>>
T_StudyInstanceUID ==
    <<<<"1">>, <<"3">>, <<"6">>, <<"1">>, <<"4">>, <<"1">>,
      <<"5", "9", "6", "2">>, <<"1">>, <<"2">>, <<"1">>, <<"2", "0", "0", "4", "0", "1", "1", "9", "0", "7", "2", "7", "3", "0">>, <<"1", "2", "3", "2", "2">>>>
T_SeriesInstanceUID ==
    <<<<"1">>, <<"3">>, <<"6">>, <<"1">>, <<"4">>, <<"1">>,
      <<"5", "9", "6", "2">>, <<"1">>, <<"3">>, <<"1">>, <<"1">>, <<"2", "0", "0", "4", "0", "1", "1", "9", "0", "7", "2", "7", "3", "0">>,
      <<"1", "2", "3", "2", "2">>>>

NoError == "none"

(***************************************************************************)
(* Python values of lesion_diameter: a bool, a number or a list.           *)
(***************************************************************************)
PyBool(b) == [kind |-> "bool", val |-> IF b THEN 1 ELSE 0, items |-> <<>>]
PyNum(n) == [kind |-> "num", val |-> n, items |-> <<>>]
PyList(xs) == [kind |-> "list", val |-> 0, items |-> xs]

\* bool(x)
Truthy(x) == IF x.kind = "list" THEN Len(x.items) > 0 ELSE x.val # 0

\* isinstance(x, int | float); bool is a subclass of int
IsIntOrFloat(x) == x.kind \in {"bool", "num"}

BoolInt(b) == IF b THEN 1 ELSE 0

\* ~x on a Python int
Invert(x) == -x - 1

\* a & b for a in {0, 1}: bit 0 of b in two's complement
BitAnd01(a, b) == IF a = 0 THEN 0 ELSE b % 2

(***************************************************************************)
(* CTobj                                                                   *)
(***************************************************************************)
Aliases == {S_MITA_LCD, S_MITA, S_MITALCD, S_LCD}

Options == {S_CTP404, S_CCT189, S_UNIFORM}

NormalizeAlias(phantom) == IF phantom \in Aliases THEN S_CCT189 ELSE phantom

\* The keyword defaults of CTobj.__init__; fov and reference_fov in tenths of a mm.
CTobjDefaults ==
    [phantom |-> S_CCT189, patient_diameter |-> 200, reference_diameter |-> 200,
     reference_fov |-> 3400, I0 |-> 300000, matrix_size |-> 512, fov |-> 3400,
     nsims |-> 1, lesion_diameter |-> PyBool(FALSE), add_noise |-> TRUE,
     patientname |-> <<>>, patientid |-> 0, studyname |-> <<>>, studyid |-> 0,
     seriesname |-> <<>>, seriesid |-> 0]

\* A call CTobj(**kw): the keywords given override the defaults.
CTobjCall(kw) ==
    [k \in DOMAIN CTobjDefaults |-> IF k \in DOMAIN kw THEN kw[k] ELSE CTobjDefaults[k]]

\* __init__ raises ValueError for a phantom that is no option.
CTobjAccepts(a) == Upper(NormalizeAlias(a.phantom)) \in Options

\* f'{I0}' of a float with an integral value
FloatStr(x) == Str(x) \o <<".", "0">>

\* The object __init__ leaves; recon and groundtruth hold a slice count, 0 for None.
CTobjInit(a) ==
    LET phantom == NormalizeAlias(a.phantom)
        patientname == IF a.patientname # <<>> THEN a.patientname
                       ELSE FloatStr10(a.patient_diameter) \o S_sp_cm_sp \o phantom
    IN  [phantom |-> phantom,
         patient_diameter |-> a.patient_diameter,
         reference_diameter |-> a.reference_diameter,
         reference_fov |-> a.reference_fov,
         I0 |-> a.I0,
         matrix_size |-> a.matrix_size,
         fov |-> a.fov,
         nsims |-> a.nsims,
         lesion_diameter |-> a.lesion_diameter,
         add_noise |-> a.add_noise,
         patientname |-> patientname,
         patientid |-> a.patientid,
         studyname |-> IF a.studyname # <<>> THEN a.studyname ELSE patientname,
         studyid |-> a.studyid,
         seriesname |-> IF a.seriesname # <<>> THEN a.seriesname
                        ELSE patientname \o S_I0 \o FloatStr(a.I0),
         seriesid |-> a.seriesid,
         recon |-> 0,
         groundtruth |-> 0]

NoCT == [phantom |-> <<>>]

(***************************************************************************)
(* mirt_sim                                                                *)
(***************************************************************************)
\* The phantom mirt_sim hands on: aliases become CCT189, the case is kept.
MirtPhantom(phantom) == NormalizeAlias(phantom)

\* The field of view mirt_sim computes, in tenths of a mm (1.1 * d = 11 d / 10).
MirtFov(patient_diameter, reference_diameter, reference_fov) ==
    IF patient_diameter = reference_diameter THEN reference_fov ELSE 11 * patient_diameter

\* The CTP404 test of line 227: (phantom.upper() == 'CTP404') & (~isinstance(...))
Ctp404Check(phantom, ld) ==
    BitAnd01(BoolInt(Upper(phantom) = S_CTP404), Invert(BoolInt(IsIntOrFloat(ld)))) # 0

\* The CCT189 test of line 229, once len(lesion_diameter) has a value
Cct189Check(phantom, ld) ==
    BitAnd01(BoolInt(phantom = S_CCT189), BoolInt(Len(ld.items) # 4)) # 0

\* The exception mirt_sim raises before it calls the simulator, or NoError.
MirtValidate(phantom, ld) ==
    IF ~Truthy(ld) THEN NoError
    ELSE IF Ctp404Check(MirtPhantom(phantom), ld) THEN "ValueError"
    ELSE IF ld.kind # "list" THEN "TypeError"
    ELSE IF Cct189Check(MirtPhantom(phantom), ld) THEN "ValueError"
    ELSE NoError

\* The arguments of octave.ct_sim / ct_sim_quiet for the object c.
SimCall(c, verbose) ==
    [entry |-> IF verbose THEN "ct_sim" ELSE "ct_sim_quiet",
     phantom |-> MirtPhantom(c.phantom),
     patient_diameter |-> c.patient_diameter,
     reference_diameter |-> c.reference_diameter,
     lesion_diameter |-> c.lesion_diameter,
     I0 |-> c.I0,
     add_noise |-> c.add_noise,
     nx |-> c.matrix_size,
     fov |-> MirtFov(c.patient_diameter, c.reference_diameter, c.reference_fov),
     nsims |-> c.nsims]

\* CTobj.run: [exc, ct, calls]; simFails is the collaborator raising.
RunCT(c, verbose, simFails) ==
    LET exc == MirtValidate(c.phantom, c.lesion_diameter)
    IN  IF exc # NoError THEN [exc |-> exc, ct |-> c, calls |-> <<>>]
        ELSE IF simFails
        THEN [exc |-> "Oct2PyError", ct |-> c, calls |-> <<SimCall(c, verbose)>>]
        ELSE [exc |-> NoError,
              ct |-> [c EXCEPT !.recon = c.nsims, !.groundtruth = 1],
              calls |-> <<SimCall(c, verbose)>>]

(***************************************************************************)
(* CTobj.write_to_dicom                                                    *)
(***************************************************************************)
\* uid.split('.')[-1]
LastSegment(uid) == uid[Len(uid)]

\* end = uid.split('.')[-1]; uid.replace(end, str(int(end) + offset)).  Neither
\* string holds a dot, so the replacement acts inside each segment.
OffsetUid(uid, offset) ==
    LET end == LastSegment(uid)
        new_end == Str(ParseInt(end) + offset)
    IN  [i \in 1..Len(uid) |-> Replace(uid[i], end, new_end)] \o <<>>

\* ds.SOPInstanceUID after the loop body of slice k: the loop rewrites the
\* value the previous slice left in ds.
RECURSIVE SliceUid(_, _, _)
SliceUid(template, c, k) ==
    OffsetUid(IF k = 0 THEN template ELSE SliceUid(template, c, k - 1),
              k + c.studyid + c.seriesid)

\* The name of slice k's file.
SliceFname(fname, nslices, k) ==
    IF nslices > 1
    THEN PathDiv(PathParent(fname),
                 PathStem(fname) \o <<"_">> \o Pad3(k) \o PathSuffix(fname))
    ELSE fname

\* The data set write_file stores for slice k of the object c.
SliceDataset(c, k) ==
    [PatientName |-> c.patientname,
     SeriesNumber |-> c.seriesid,
     PatientID |-> Pad3(c.patientid),
     ImageComments |-> S_comment \o FloatStr10(c.patient_diameter),
     ReconstructionDiameter |-> c.fov,
     Exposure |-> c.I0,
     Rows |-> c.matrix_size,
     PixelSpacing |-> [num |-> c.fov, den |-> c.matrix_size],
     StudyID |-> Str(c.studyid),
     SeriesInstanceUID |-> OffsetUid(T_SeriesInstanceUID, c.studyid),
     StudyInstanceUID |-> OffsetUid(T_StudyInstanceUID, c.studyid),
     AcquisitionNumber |-> c.studyid,
     InstanceNumber |-> k + 1,
     SOPInstanceUID |-> SliceUid(T_SOPInstanceUID, c, k),
     MediaStorageSOPInstanceUID |-> SliceUid(T_MediaStorageSOPInstanceUID, c, k)]

\* One pydicom.write_file call: the file name, the data set, and (history) the
\* object and slice index it was written from.
SliceWrite(c, fname, groundtruth, k) ==
    [fname |-> SliceFname(fname, c.recon, k),
     ds |-> SliceDataset(c, k),
     by |-> c,
     slice |-> k,
     groundtruth |-> groundtruth]

\* write_to_dicom(fname, groundtruth): [exc, fnames, written].  nOk is the number
\* of write_file calls the file system lets succeed.
WriteToDicom(c, fname, groundtruth, nOk) ==
    LET nvol == IF groundtruth THEN c.groundtruth ELSE c.recon
        n == IF nOk < nvol THEN nOk ELSE nvol
        written == [k \in 1..n |-> SliceWrite(c, fname, groundtruth, k - 1)] \o <<>>
    IN  IF c.recon = 0 THEN [exc |-> "AttributeError", fnames |-> <<>>, written |-> <<>>]
        ELSE IF c.recon # c.nsims
        THEN [exc |-> "AssertionError", fnames |-> <<>>, written |-> <<>>]
        ELSE IF nOk < nvol THEN [exc |-> "OSError", fnames |-> <<>>, written |-> written]
        ELSE [exc |-> NoError,
              fnames |-> [k \in 1..n |-> written[k].fname] \o <<>>,
              written |-> written]

\* The files on disk after the writes ws: the last write to each name.
FilesOf(ws) ==
    {ws[i] : i \in {j \in 1..Len(ws) : \A k \in (j + 1)..Len(ws) : ws[k].fname # ws[j].fname}}

(***************************************************************************)
(* pediatric_subgroup, subgroup_to_age, dicom_meta_to_dataframe            *)
(***************************************************************************)
RoundToDecile(age) == age - (age % 10)

\* adult_waist_circumferences_cm, in 1e-5 cm
AdultWaist(decile) ==
    CASE decile = 30 -> 9990000
      [] decile = 40 -> 10280000
      [] decile = 60 -> 10620000
      [] decile = 70 -> 10660000
      [] decile = 80 -> 10410000

\* age_to_eff_diameter in 1e-5 cm; the polynomial of TG204 A-3 is tabulated
\* at the ages pediatric_subgroup asks for.
AgeToEffDiameter(age) ==
    IF age > 22 THEN AdultWaist(RoundToDecile(age))
    ELSE CASE age = 1 -> 1511852
           [] age = 5 -> 1854552
           [] age = 12 -> 2321678
           [] age = 22 -> 3392440

\* pediatric_subgroup(diameter), diameter in tenths of a cm
PediatricSubgroup(d10) ==
    LET d == d10 * 10000
    IN  IF d < AgeToEffDiameter(1) THEN "newborn"
        ELSE IF d >= AgeToEffDiameter(1) /\ d < AgeToEffDiameter(5) THEN "infant"
        ELSE IF d >= AgeToEffDiameter(5) /\ d < AgeToEffDiameter(12) THEN "child"
        ELSE IF d >= AgeToEffDiameter(12) /\ d < AgeToEffDiameter(22) THEN "adolescent"
        ELSE "adult"

\* subgroup_to_age(group), in months
SubgroupToAge(group) ==
    CASE group = "newborn" -> 1
      [] group = "infant" -> 24
      [] group = "child" -> 144
      [] group = "adolescent" -> 252
      [] group = "adult" -> 468

\* The diameter dicom_meta_to_dataframe classifies, in tenths of a cm.
ClassifiedDiameter(diameter) == 182

\* dicom_meta_to_dataframe(fname) on the files `files`: the row, or the
\* exception raised.  Dose is <<>> for None and <<n>> for an int.
DicomMetaToDataframe(fname, files) ==
    LET found == {f \in files : f.fname = fname}
        dcm == (CHOOSE f \in found : TRUE).ds
        nameParts == Split(dcm.PatientName, S_cm)
        commentParts == Split(dcm.ImageComments, <<":">>)
        diameter == ParseFloat10(commentParts[2])
        subgroup == PediatricSubgroup(ClassifiedDiameter(diameter))
        stem == PathStem(fname)
        doseParts == Split(PathStr(fname), S_dose_)
        dose == ParseInt(Split(doseParts[2], <<"/">>)[1])
        stemParts == Split(stem, <<"_">>)
        repeat == IF Len(stemParts) > 1 THEN ParseInt(stemParts[2]) ELSE 0
        series == IF EndsWith(stem, S_noisefree) THEN "noise free"
                  ELSE IF EndsWith(stem, S_groundtruth) THEN "ground truth"
                  ELSE "simulation"
        exc == IF found = {} THEN "FileNotFoundError"
               ELSE IF Len(nameParts) < 2 \/ Len(commentParts) < 2 THEN "IndexError"
               ELSE IF diameter = ParseError THEN "ValueError"
               ELSE IF series # "simulation" THEN NoError
               ELSE IF Len(doseParts) < 2 THEN "IndexError"
               ELSE IF dose = ParseError \/ repeat = ParseError THEN "ValueError"
               ELSE NoError
    IN  IF exc # NoError THEN [exc |-> exc]
        ELSE [exc |-> NoError,
              Name |-> dcm.PatientName,
              PatientID |-> dcm.PatientID,
              StudyID |-> dcm.StudyID,
              series |-> series,
              diameter |-> diameter,
              age |-> SubgroupToAge(subgroup),
              subgroup |-> subgroup,
              phantom |-> Strip(nameParts[2]),
              Dose |-> IF series = "simulation" THEN <<dose>> ELSE <<>>,
              FOV |-> [num |-> dcm.PixelSpacing.num * dcm.Rows, den |-> dcm.PixelSpacing.den * 10],
              repeat |-> IF series = "simulation" THEN repeat ELSE 0,
              file |-> fname]

(***************************************************************************)
(* run_batch_sim                                                           *)
(***************************************************************************)
\* Dose levels are written n/DoseDen.
DoseDen == 256

\* dose_level = full_dose * np.array(dose_level)
DoseArray(full_dose, dose_level) ==
    [i \in 1..Len(dose_level) |-> (full_dose * dose_level[i]) \div DoseDen] \o <<>>

ArrayMax(xs) == CHOOSE m \in {xs[i] : i \in 1..Len(xs)} : \A i \in 1..Len(xs) : xs[i] <= m

\* int(rel_dose) with rel_dose = 100*dose/dose_level.max()
IntRelDose(dose, doses) == (100 * dose) \div ArrayMax(doses)

\* f"{recon} {fbp_kernel.replace(',','').replace('.','')}"
ReconDir(fbp_kernel) ==
    S_fbp \o <<" ">> \o Replace(Replace(fbp_kernel, <<",">>, <<>>), <<".">>, <<>>)

DiameterDir(patient_diameter) == S_diameter \o Str(patient_diameter) \o S_mm

\* The phantom keyword run_batch_sim gives CTobj: none of its own.
BatchPhantomKw(phantom) == <<>>

\* The keywords of the CTobj call in the dose loop.
BatchKw(a, i) ==
    LET phantom == a.model[i.p]
        patient_diameter == a.diameter[i.d]
        doses == DoseArray(a.full_dose, a.dose_level)
        dose == doses[i.l]
        patientname == FloatStr10(patient_diameter) \o S_sp_cm_sp \o phantom
        studyname == Str(IntRelDose(dose, doses)) \o S_pct_dose
    IN  [patient_diameter |-> patient_diameter,
         reference_fov |-> 3400,
         I0 |-> dose,
         patientname |-> patientname,
         patientid |-> i.d - 1,
         studyname |-> studyname,
         studyid |-> i.l - 1,
         seriesname |-> patientname \o <<" ">> \o studyname]
        @@ BatchPhantomKw(phantom) @@ a.kwargs

\* The file name of the dose-sweep series.
SweepFname(a, i, c) ==
    LET doses == DoseArray(a.full_dose, a.dose_level)
    IN  <<a.image_directory,
          a.model[i.p],
          DiameterDir(a.diameter[i.d]),
          S_dose_ \o Pad3(IntRelDose(doses[i.l], doses)),
          ReconDir(a.fbp_kernel),
          c.patientname \o S_dcm>>

VariantFname(a, i, c, tag) ==
    <<a.image_directory,
      a.model[i.p],
      DiameterDir(a.diameter[i.d]),
      c.patientname \o <<"_">> \o tag \o S_dcm>>

\* What the environment does to one step: nothing, the simulator raises, or
\* the file system fails after k files of the step.
Faults(n) ==
    {[at |-> "none", k |-> 0], [at |-> "sim", k |-> 0]}
        \cup {[at |-> "write", k |-> k] : k \in 0..(n - 1)}

WriteFaults(n) == {f \in Faults(n) : f.at # "sim"}

Allowed(fault, nvol) == IF fault.at = "write" THEN fault.k ELSE nvol

\* Propagate with a handler that swallows the exception and goes on.
PropagateSwallowed(exc, cont) == cont

\* No handler stands between a raising step and the caller of run_batch_sim:
\* the next position is "failed" when exc was raised, cont otherwise.
Propagate(exc, cont) == IF exc # NoError THEN "failed" ELSE cont

\* Lines 347-351: construct, run, write.  [exc, ct, calls, written, fnames]
SweepBody(a, i, old, fault) ==
    LET call == CTobjCall(BatchKw(a, i))
        c0 == CTobjInit(call)
        r == RunCT(c0, a.verbose, fault.at = "sim")
        w == WriteToDicom(r.ct, SweepFname(a, i, r.ct), FALSE, Allowed(fault, r.ct.recon))
    IN  IF ~CTobjAccepts(call)
        THEN [exc |-> "ValueError", ct |-> old, calls |-> <<>>, written |-> <<>>, fnames |-> <<>>]
        ELSE IF r.exc # NoError
        THEN [exc |-> r.exc, ct |-> r.ct, calls |-> r.calls, written |-> <<>>, fnames |-> <<>>]
        ELSE [exc |-> w.exc, ct |-> r.ct, calls |-> r.calls, written |-> w.written,
              fnames |-> w.fnames]

\* Lines 353-357: the noise-free variant of the last object of the dose loop.
NoiseFreeBody(a, i, old, fault) ==
    LET c1 == [old EXCEPT !.nsims = 1, !.add_noise = FALSE]
        r == RunCT(c1, a.verbose, fault.at = "sim")
        w == WriteToDicom(r.ct, VariantFname(a, i, r.ct, S_noisefree), FALSE,
                          Allowed(fault, r.ct.recon))
    IN  IF r.exc # NoError
        THEN [exc |-> r.exc, ct |-> r.ct, calls |-> r.calls, written |-> <<>>, fnames |-> <<>>]
        ELSE [exc |-> w.exc, ct |-> r.ct, calls |-> r.calls, written |-> w.written,
              fnames |-> w.fnames]

\* Lines 359-360: the ground-truth variant.
GroundTruthBody(a, i, old, fault) ==
    LET w == WriteToDicom(old, VariantFname(a, i, old, S_groundtruth), TRUE,
                          Allowed(fault, old.groundtruth))
    IN  [exc |-> w.exc, ct |-> old, calls |-> <<>>, written |-> w.written, fnames |-> w.fnames]

\* The three loops: the position after the ground-truth step of (p, d).
NextPair(a, i) ==
    IF i.d < Len(a.diameter) THEN [p |-> i.p, d |-> i.d + 1, l |-> 1]
    ELSE IF i.p < Len(a.model) THEN [p |-> i.p + 1, d |-> 1, l |-> 1]
    ELSE i

LastPair(a, i) == i.d = Len(a.diameter) /\ i.p = Len(a.model)

\* Line 361: the rows of every name in fnames, read from the files on disk.
MetadataRows(names, ws) ==
    LET files == FilesOf(ws)
    IN  [k \in 1..Len(names) |-> DicomMetaToDataframe(names[k], files)] \o <<>>

FirstExc(rows) ==
    LET bad == {k \in 1..Len(rows) : rows[k].exc # NoError}
    IN  IF bad = {} THEN NoError ELSE rows[CHOOSE k \in bad : \A j \in bad : k <= j].exc

(***************************************************************************)
(* The inputs of the model.                                                *)
(***************************************************************************)
InjSeqs(S, n) == {s \in [1..n -> S] : \A j, k \in 1..n : j # k => s[j] # s[k]}

\* The lists of 1..MaxLen distinct members of S.
Lists(S) == UNION {InjSeqs(S, n) : n \in 1..MaxLen}

ModelValues == {S_CTP404, S_MITA_LCD}

DiameterValues == {112, 200}

\* In units of 1/DoseDen: 0.00390625, 0.0078125 and 1.0
DoseLevelValues == {1, 2, 256}

RootValues == {S_out, S_dose_7}

BatchArgs ==
    [image_directory : RootValues,
     model : Lists(ModelValues),
     diameter : Lists(DiameterValues),
     full_dose : {256000},
     dose_level : Lists(DoseLevelValues),
     fbp_kernel : {S_fbp},
     verbose : {TRUE},
     kwargs : {[nsims |-> n] : n \in 1..MaxNsims}]

(***************************************************************************)
(* run_batch_sim as a state machine.                                       *)
(***************************************************************************)
Init ==
    /\ args \in BatchArgs
    /\ pc = "sweep"
    /\ idx = [p |-> 1, d |-> 1, l |-> 1]
    /\ ct = NoCT
    /\ simcalls = <<>>
    /\ writes = <<>>
    /\ fnames = <<>>
    /\ metadata = <<>>
    /\ csv = <<>>
    /\ err = NoError

\* One pass of the dose loop, lines 344-351.
SweepIter ==
    /\ pc = "sweep"
    /\ \E fault \in Faults(args.kwargs.nsims) :
        \E b \in {SweepBody(args, idx, ct, fault)}, more \in {idx.l < Len(args.dose_level)} :
            /\ ct' = b.ct
            /\ simcalls' = simcalls \o b.calls
            /\ writes' = writes \o b.written
            /\ fnames' = fnames \o b.fnames
            /\ err' = b.exc
            /\ pc' = Propagate(b.exc, IF more THEN "sweep" ELSE "noisefree")
            /\ idx' = IF b.exc = NoError /\ more THEN [idx EXCEPT !.l = @ + 1] ELSE idx
    /\ UNCHANGED <<args, metadata, csv>>

\* Lines 352-357.
NoiseFree ==
    /\ pc = "noisefree"
    /\ \E fault \in Faults(1) :
        \E b \in {NoiseFreeBody(args, idx, ct, fault)} :
            /\ ct' = b.ct
            /\ simcalls' = simcalls \o b.calls
            /\ writes' = writes \o b.written
            /\ fnames' = fnames \o b.fnames
            /\ err' = b.exc
            /\ pc' = Propagate(b.exc, "groundtruth")
    /\ UNCHANGED <<args, idx, metadata, csv>>

\* Lines 358-360, and the step of the two outer loops.
GroundTruth ==
    /\ pc = "groundtruth"
    /\ \E fault \in WriteFaults(1) :
        \E b \in {GroundTruthBody(args, idx, ct, fault)} :
            /\ ct' = b.ct
            /\ simcalls' = simcalls \o b.calls
            /\ writes' = writes \o b.written
            /\ fnames' = fnames \o b.fnames
            /\ err' = b.exc
            /\ pc' = Propagate(b.exc, IF LastPair(args, idx) THEN "metadata" ELSE "sweep")
            /\ idx' = IF b.exc = NoError THEN NextPair(args, idx) ELSE idx
    /\ UNCHANGED <<args, metadata, csv>>

\* Lines 361-363: extract, concatenate, write metadata.csv, return.
Extract ==
    /\ pc = "metadata"
    /\ \E rows \in {MetadataRows(fnames, writes)}, csvFails \in BOOLEAN :
        \E exc \in {IF FirstExc(rows) # NoError THEN FirstExc(rows)
                    ELSE IF csvFails THEN "OSError" ELSE NoError} :
            /\ err' = exc
            /\ pc' = Propagate(exc, "done")
            /\ csv' = IF exc = NoError THEN <<rows>> ELSE csv
            /\ metadata' = IF exc = NoError THEN <<rows>> ELSE metadata
    /\ UNCHANGED <<args, idx, ct, simcalls, writes, fnames>>

Next == SweepIter \/ NoiseFree \/ GroundTruth \/ Extract

Spec == Init /\ [][Next]_vars

(***************************************************************************)
(* One CTobj used directly: construct, run, write_to_dicom, and            *)
(* dicom_meta_to_dataframe on the files written.                           *)
(***************************************************************************)
PhantomValues == {S_CCT189, S_cct189, S_MITA, S_CTP404, S_ctp404, S_UNIFORM, S_FOO}

LesionValues ==
    {PyBool(FALSE), PyNum(5)} \cup {PyList([j \in 1..n |-> j]) : n \in 0..MaxLesionLen}

CTFname == <<S_out, S_dose_ \o Pad3(100), <<"c", "t">> \o S_dcm>>

CTArgs ==
    [kw : [phantom : PhantomValues,
           patient_diameter : DiameterValues,
           lesion_diameter : LesionValues,
           nsims : 1..MaxNsims,
           studyid : 0..MaxId,
           seriesid : 0..MaxId],
     fname : {CTFname},
     verbose : BOOLEAN]

InitCT ==
    /\ args \in CTArgs
    /\ pc = "new"
    /\ idx = [p |-> 1, d |-> 1, l |-> 1]
    /\ ct = NoCT
    /\ simcalls = <<>>
    /\ writes = <<>>
    /\ fnames = <<>>
    /\ metadata = <<>>
    /\ csv = <<>>
    /\ err = NoError

\* CTobj(**kw)
CTConstruct ==
    /\ pc = "new"
    /\ \E call \in {CTobjCall(args.kw)} :
        /\ ct' = IF CTobjAccepts(call) THEN CTobjInit(call) ELSE ct
        /\ err' = IF CTobjAccepts(call) THEN NoError ELSE "ValueError"
        /\ pc' = IF CTobjAccepts(call) THEN "constructed" ELSE "failed"
    /\ UNCHANGED <<args, idx, simcalls, writes, fnames, metadata, csv>>

\* ct.run(verbose)
CTRun ==
    /\ pc = "constructed"
    /\ \E simFails \in BOOLEAN :
        \E r \in {RunCT(ct, args.verbose, simFails)} :
            /\ ct' = r.ct
            /\ simcalls' = simcalls \o r.calls
            /\ err' = r.exc
            /\ pc' = Propagate(r.exc, "ran")
    /\ UNCHANGED <<args, idx, writes, fnames, metadata, csv>>

\* ct.write_to_dicom(fname, groundtruth)
CTWrite ==
    /\ pc = "ran"
    /\ \E groundtruth \in BOOLEAN, fault \in WriteFaults(ct.nsims) :
        \E w \in {WriteToDicom(ct, args.fname, groundtruth,
                               Allowed(fault, IF groundtruth THEN ct.groundtruth ELSE ct.recon))} :
            /\ writes' = writes \o w.written
            /\ fnames' = w.fnames
            /\ err' = w.exc
            /\ pc' = Propagate(w.exc, "written")
    /\ UNCHANGED <<args, idx, ct, simcalls, metadata, csv>>

\* dicom_meta_to_dataframe on each file written
CTExtract ==
    /\ pc = "written"
    /\ \E rows \in {MetadataRows(fnames, writes)} :
        /\ err' = FirstExc(rows)
        /\ pc' = Propagate(FirstExc(rows), "done")
        /\ metadata' = IF FirstExc(rows) = NoError THEN <<rows>> ELSE metadata
    /\ UNCHANGED <<args, idx, ct, simcalls, writes, fnames, csv>>

NextCT == CTConstruct \/ CTRun \/ CTWrite \/ CTExtract

SpecCT == InitCT /\ [][NextCT]_vars

(***************************************************************************)
(* Properties.                                                             *)
(***************************************************************************)
Files == FilesOf(writes)

UidEnd(uid) == ParseInt(LastSegment(uid))

Doses == DoseArray(args.full_dose, args.dose_level)

Rows == IF metadata = <<>> THEN <<>> ELSE metadata[1]

\* C1: within one run_batch_sim run, any two files on disk differ in the final
\* segment of their SOPInstanceUID and of their MediaStorageSOPInstanceUID.
C1_UidsDistinct ==
    \A f, g \in Files :
        f.fname # g.fname =>
            /\ UidEnd(f.ds.SOPInstanceUID) # UidEnd(g.ds.SOPInstanceUID)
            /\ UidEnd(f.ds.MediaStorageSOPInstanceUID) # UidEnd(g.ds.MediaStorageSOPInstanceUID)

\* C2: when run_batch_sim has returned, every (phantom p, diameter d, dose level l)
\* has exactly one noisy simulator call, made with phantom kind p (aliases as
\* CCT189), patient diameter d and fluence full_dose*l, and a file of that
\* simulation under root/p/diameter{d}mm/.
C2_EveryCombinationSimulated ==
    pc = "done" =>
        \A p \in 1..Len(args.model), d \in 1..Len(args.diameter), l \in 1..Len(args.dose_level) :
            /\ Cardinality({k \in 1..Len(simcalls) :
                              /\ simcalls[k].add_noise
                              /\ simcalls[k].phantom = NormalizeAlias(args.model[p])
                              /\ simcalls[k].patient_diameter = args.diameter[d]
                              /\ simcalls[k].I0 = Doses[l]}) = 1
            /\ \E k \in 1..Len(writes) :
                  /\ writes[k].by.add_noise
                  /\ ~writes[k].groundtruth
                  /\ writes[k].by.patient_diameter = args.diameter[d]
                  /\ writes[k].by.I0 = Doses[l]
                  /\ SubSeq(writes[k].fname, 1, 3)
                        = <<args.image_directory, args.model[p], DiameterDir(args.diameter[d])>>

\* C3: when run_batch_sim has returned, the row of every simulation file carries
\* the phantom kind, the effective diameter and the dose percentage of the CTobj
\* the file was written from.
C3_RoundTrip ==
    pc = "done" =>
        \A k \in 1..Len(Rows) : \A f \in Files :
            (Rows[k].series = "simulation" /\ f.fname = Rows[k].file) =>
                /\ Upper(NormalizeAlias(Rows[k].phantom)) = Upper(f.by.phantom)
                /\ Rows[k].diameter = f.by.patient_diameter
                /\ Rows[k].Dose = <<IntRelDose(f.by.I0, Doses)>>

\* The lesion_diameter shapes C4 is about.
BadLesion(c) ==
    \/ Upper(c.phantom) = S_CCT189 /\ c.lesion_diameter.kind = "list"
                                   /\ Len(c.lesion_diameter.items) # 4
    \/ Upper(c.phantom) = S_CTP404 /\ ~IsIntOrFloat(c.lesion_diameter)

\* C4: once run() has been called on a CCT189 object whose lesion_diameter is a
\* list of length other than 4, or on a CTP404 object whose lesion_diameter is no
\* scalar, it has raised ValueError and the simulator was never called.
C4_BadLesionRejected ==
    (pc \in {"ran", "written", "done", "failed"} /\ ct.phantom # <<>> /\ BadLesion(ct)) =>
        (err = "ValueError" /\ simcalls = <<>>)

\* round(a / b) to the nearest integer, ties to even
RoundDiv(a, b) ==
    LET q == a \div b
        r == a % b
    IN  IF 2 * r > b \/ (2 * r = b /\ q % 2 = 1) THEN q + 1 ELSE q

\* C5: every dose-sweep file lies in the directory dose_{pct:03d} with
\* pct = round(100 * dose / max(dose_levels)).
C5_RoundedPercent ==
    \A k \in 1..Len(writes) :
        Len(writes[k].fname) = 6 =>
            writes[k].fname[4] = S_dose_ \o Pad3(RoundDiv(100 * writes[k].by.I0, ArrayMax(Doses)))

\* The field of view C6 states, in tenths of a mm.
StatedFov(c) ==
    IF c.patient_diameter = c.reference_diameter THEN c.reference_fov ELSE 11 * c.patient_diameter

\* C6: the field of view handed to the simulator, and the one behind the
\* persisted ReconstructionDiameter and PixelSpacing, is reference_fov when
\* patient_diameter = reference_diameter and 1.1 * patient_diameter otherwise.
C6_FovDerived ==
    /\ \A k \in 1..Len(simcalls) : simcalls[k].fov = StatedFov(ct)
    /\ \A k \in 1..Len(writes) :
          /\ writes[k].ds.ReconstructionDiameter = StatedFov(writes[k].by)
          /\ writes[k].ds.PixelSpacing
                = [num |-> StatedFov(writes[k].by), den |-> writes[k].by.matrix_size]

PairDir(p, d) == <<args.image_directory, args.model[p], DiameterDir(args.diameter[d])>>

FilesUnder(p, d) == {f \in Files : SubSeq(f.fname, 1, 3) = PairDir(p, d)}

\* C7: when run_batch_sim has returned, each (phantom, diameter) pair has
\* len(dose_level)*nsims dose-sweep files, one _noisefree file and one
\* _groundtruth file on disk; the table has one row per file on disk; Dose is
\* set on the simulation rows and empty on the others.
C7_FileCounts ==
    pc = "done" =>
        /\ \A p \in 1..Len(args.model), d \in 1..Len(args.diameter) :
              /\ Cardinality({f \in FilesUnder(p, d) : Len(f.fname) = 6})
                    = Len(args.dose_level) * args.kwargs.nsims
              /\ Cardinality({f \in FilesUnder(p, d) :
                                Len(f.fname) = 4 /\ EndsWith(PathStem(f.fname), S_noisefree)}) = 1
              /\ Cardinality({f \in FilesUnder(p, d) :
                                Len(f.fname) = 4 /\ EndsWith(PathStem(f.fname), S_groundtruth)}) = 1
        /\ Len(Rows) = Cardinality(Files)
        /\ \A f \in Files : Cardinality({k \in 1..Len(Rows) : Rows[k].file = f.fname}) = 1
        /\ \A k \in 1..Len(Rows) : (Rows[k].series = "simulation") <=> (Rows[k].Dose # <<>>)

\* C8: a step of run_batch_sim that raises ends the run: the exception reaches
\* the caller, metadata.csv is not written and no table is returned, no write
\* made before is undone, and no step (no retry, no later combination, no
\* metadata.csv) follows.
C8_FailureAborts ==
    /\ [][err' # NoError =>
            /\ pc' = "failed"
            /\ csv' = <<>> /\ metadata' = <<>>
            /\ SubSeq(writes', 1, Len(writes)) = writes
            /\ Len(simcalls') <= Len(simcalls) + 1]_vars
    /\ [][err = NoError]_vars

\* C8 witness: a step failed after files were persisted, with combinations left.
C8_Witness ==
    /\ pc = "failed" /\ err # NoError
    /\ writes # <<>>
    /\ ~LastPair(args, idx)
    /\ csv = <<>>

\* C9: in one write_to_dicom call of an object with study id s and series id r,
\* slice k's SOPInstanceUID and MediaStorageSOPInstanceUID end in the template's
\* final segment plus k + s + r, and the Study and Series UIDs in the template's
\* plus s.
C9_UidOffsets ==
    \A j \in 1..Len(writes) :
        \E w \in {writes[j]} :
            /\ UidEnd(w.ds.SOPInstanceUID)
                  = UidEnd(T_SOPInstanceUID) + w.slice + w.by.studyid + w.by.seriesid
            /\ UidEnd(w.ds.MediaStorageSOPInstanceUID)
                  = UidEnd(T_MediaStorageSOPInstanceUID) + w.slice + w.by.studyid + w.by.seriesid
            /\ UidEnd(w.ds.StudyInstanceUID) = UidEnd(T_StudyInstanceUID) + w.by.studyid
            /\ UidEnd(w.ds.SeriesInstanceUID) = UidEnd(T_SeriesInstanceUID) + w.by.studyid

\* C10: every row of the table carries pediatric_subgroup of the row's effective
\* diameter, and subgroup_to_age of that label as its age.
C10_SubgroupOfDiameter ==
    \A k \in 1..Len(Rows) :
        /\ Rows[k].subgroup = PediatricSubgroup(Rows[k].diameter)
        /\ Rows[k].age = SubgroupToAge(Rows[k].subgroup)

\* The lesion_diameter shapes the Parameter Set invariant allows: a scalar or
\* absent for CTP404 and UNIFORM, a list of 4 or absent for CCT189.
GoodLesion(c) ==
    \/ Upper(c.phantom) \in {S_CTP404, S_UNIFORM} /\ IsIntOrFloat(c.lesion_diameter)
    \/ Upper(c.phantom) = S_CCT189
          /\ \/ c.lesion_diameter = PyBool(FALSE)
             \/ c.lesion_diameter.kind = "list" /\ Len(c.lesion_diameter.items) = 4

\* C11: once run() has been called on an object whose lesion_diameter satisfies
\* the invariant, mirt_sim has raised no error before the external call: the
\* simulator has been called.
C11_GoodLesionReachesSimulator ==
    (pc \in {"ran", "written", "done", "failed"} /\ ct.phantom # <<>> /\ GoodLesion(ct)) =>
        simcalls # <<>>

====
